---- MODULE Spec2Model ----
(***************************************************************************)
(* Model of the Kubernetes REST client (package client: doRequest,         *)
(* rawRequest and the Update operations of Client) and of Set.String of    *)
(* package labels.                                                         *)
(***************************************************************************)
EXTENDS Integers, Sequences, FiniteSets, TLC

VARIABLES
    auth,              \* RESTClient.auth != nil
    pc,                \* position of the single synchronous call
    caller,            \* entry point of the call in progress
    request,           \* the *http.Request handed to doRequest
    target,            \* rawRequest: target != nil
    resourceVersion,   \* Update*: ResourceVersion of the resource passed in
    resp,              \* what httpClient.Do produced
    body,              \* doRequest local: body
    isStatusResponse,  \* doRequest local
    status,            \* doRequest local: api.Status
    ret,               \* doRequest's return values (body, err)
    out,               \* the caller's return values
    doCalls,           \* httpClient.Do invocations of this call
    readCalls,         \* ioutil.ReadAll invocations of this call
    closeCalls,        \* response.Body.Close invocations of this call
    statusDecodes,     \* api.DecodeInto(body, &status) invocations
    classified,        \* executions of the status-code switch
    targetDecodes,     \* api.DecodeInto(body, target) invocations
    ls,                \* labels.Set under String()
    selector,          \* Set.String local: the slice before sorting
    str,               \* Set.String result
    lpc,               \* position of the Set.String call
    minions,           \* []SaltMinion known to the Salt API
    role,              \* saltMinionsByRole: role
    filteredMinions,   \* saltMinionsByRole result
    instances,         \* List result: instances, err
    spc                \* position of the VagrantCloud call

vars == <<auth, pc, caller, request, target, resourceVersion, resp, body, isStatusResponse,
          status, ret, out, doCalls, readCalls, closeCalls, statusDecodes,
          classified, targetDecodes, ls, selector, str, lpc, minions, role,
          filteredMinions, instances, spc>>

clientVars == <<auth, pc, caller, request, target, resourceVersion, resp, body,
                isStatusResponse, status, ret, out, doCalls, readCalls,
                closeCalls, statusDecodes, classified, targetDecodes>>

labelVars == <<ls, selector, str, lpc>>

saltVars == <<minions, role, filteredMinions, instances, spc>>

----------------------------------------------------------------------------
(* Bounds *)

MaxVal == 2        \* distinct payloads a body can carry
MaxVersion == 2    \* largest ResourceVersion tried
MaxKeyLen == 1     \* longest label key
MaxValLen == 1     \* longest label value
MaxPairs == 2      \* largest label set
MaxMinions == 2    \* most minions the Salt API reports
MaxRoles == 2      \* most roles of one minion

----------------------------------------------------------------------------
(* net/http and api constants *)

StatusOK == 200
StatusPartialContent == 206
StatusConflict == 409

StatusSuccess == "Success"
StatusFailure == "Failure"
StatusWorking == "Working"

StatusKinds == {"", StatusSuccess, StatusFailure, StatusWorking, "Other"}

StatusCodes == {199, 200, 204, 206, 207, 404, 409, 500}

----------------------------------------------------------------------------
(* Values *)

NilBody == [form |-> "nil", status |-> "", fits |-> FALSE, val |-> 0]

\* A response body: "empty" and "malformed" do not parse, "status" parses as
\* an api.Status whose Status field is .status, "object" parses but not as an
\* api.Status.  .fits: it decodes into the caller's target.
Bodies ==
    [form : {"empty"}, status : {""}, fits : BOOLEAN, val : {0}]
    \cup [form : {"malformed"}, status : {""}, fits : {FALSE}, val : {0}]
    \cup [form : {"status"}, status : StatusKinds, fits : BOOLEAN, val : 1..MaxVal]
    \cup [form : {"object"}, status : {""}, fits : BOOLEAN, val : 1..MaxVal]

\* What ioutil.ReadAll has in hand when the read fails part way.
PartialBodies == {b \in Bodies : b.form \in {"empty", "malformed"}}

NoStatus == [Status |-> "", Details |-> 0]

NoErr == [type |-> "nil", status |-> NoStatus, code |-> 0, body |-> NilBody]

SimpleErr(t) == [type |-> t, status |-> NoStatus, code |-> 0, body |-> NilBody]

StatusErr(s) == [type |-> "StatusErr", status |-> s, code |-> 0, body |-> NilBody]

RangeErr(code, b) == [type |-> "range", status |-> NoStatus, code |-> code, body |-> b]

NoResp == [received |-> FALSE, code |-> 0, body |-> NilBody, readOk |-> FALSE,
           partial |-> NilBody]

Responses ==
    [received : {TRUE}, code : StatusCodes, body : Bodies, readOk : {TRUE},
     partial : {NilBody}]
    \cup [received : {TRUE}, code : StatusCodes, body : {NilBody}, readOk : {FALSE},
          partial : PartialBodies]

NoTarget == [set |-> FALSE, val |-> 0]

NoRequest == [built |-> FALSE, basicAuth |-> FALSE]

NoRet == [body |-> NilBody, err |-> NoErr]

NoOut == [body |-> NilBody, err |-> NoErr, result |-> NoTarget]

----------------------------------------------------------------------------
(* api.DecodeInto *)

DecodeStatus(b) ==
    IF b.form = "status"
    THEN [err |-> FALSE, status |-> [Status |-> b.status, Details |-> b.val]]
    ELSE [err |-> TRUE, status |-> NoStatus]

DecodeTarget(b) ==
    IF b.form \in {"empty", "status", "object"} /\ b.fits
    THEN [err |-> FALSE, result |-> [set |-> TRUE, val |-> b.val]]
    ELSE [err |-> TRUE, result |-> NoTarget]

----------------------------------------------------------------------------
(* RESTClient.doRequest *)

IsStatusResponse(b) ==
    ~DecodeStatus(b).err /\ DecodeStatus(b).status.Status # ""

\* the status check after the switch left out
Classify_NoStatusCheck(code, isStatus, st, b) ==
    IF code = StatusConflict /\ isStatus
    THEN [body |-> NilBody, err |-> StatusErr(st)]
    ELSE IF code = StatusConflict \/ code < StatusOK \/ code > StatusPartialContent
    THEN [body |-> NilBody, err |-> RangeErr(code, b)]
    ELSE [body |-> b, err |-> NoErr]

\* the StatusConflict case left out
Classify_NoConflict(code, isStatus, st, b) ==
    IF code < StatusOK \/ code > StatusPartialContent
    THEN [body |-> NilBody, err |-> RangeErr(code, b)]
    ELSE IF isStatus /\ st.Status # StatusSuccess
    THEN [body |-> NilBody, err |-> StatusErr(st)]
    ELSE [body |-> b, err |-> NoErr]

\* the status check testing for Failure instead of anything but Success
Classify_OnlyFailure(code, isStatus, st, b) ==
    IF code = StatusConflict /\ isStatus
    THEN [body |-> NilBody, err |-> StatusErr(st)]
    ELSE IF code = StatusConflict \/ code < StatusOK \/ code > StatusPartialContent
    THEN [body |-> NilBody, err |-> RangeErr(code, b)]
    ELSE IF isStatus /\ st.Status = StatusFailure
    THEN [body |-> NilBody, err |-> StatusErr(st)]
    ELSE [body |-> b, err |-> NoErr]

\* the status check moved in front of the switch
Classify_StatusFirst(code, isStatus, st, b) ==
    IF isStatus /\ st.Status # StatusSuccess
    THEN [body |-> NilBody, err |-> StatusErr(st)]
    ELSE IF code = StatusConflict /\ isStatus
    THEN [body |-> NilBody, err |-> StatusErr(st)]
    ELSE IF code = StatusConflict \/ code < StatusOK \/ code > StatusPartialContent
    THEN [body |-> NilBody, err |-> RangeErr(code, b)]
    ELSE [body |-> b, err |-> NoErr]

Classify(code, isStatus, st, b) ==
    IF code = StatusConflict /\ isStatus
    THEN [body |-> NilBody, err |-> StatusErr(st)]
    ELSE IF code = StatusConflict \/ code < StatusOK \/ code > StatusPartialContent
    THEN [body |-> NilBody, err |-> RangeErr(code, b)]
    ELSE IF isStatus /\ st.Status # StatusSuccess
    THEN [body |-> NilBody, err |-> StatusErr(st)]
    ELSE [body |-> b, err |-> NoErr]

ResetCall ==
    /\ resp' = NoResp
    /\ body' = NilBody
    /\ isStatusResponse' = FALSE
    /\ status' = NoStatus
    /\ ret' = NoRet
    /\ doCalls' = 0
    /\ readCalls' = 0
    /\ closeCalls' = 0
    /\ statusDecodes' = 0
    /\ classified' = 0
    /\ targetDecodes' = 0

\* the error of httpClient.Do not checked
DoRequestSend_NoErrCheck ==
    /\ pc = "doRequest"
    /\ request' = [request EXCEPT !.basicAuth = auth]
    /\ doCalls' = doCalls + 1
    /\ resp' \in Responses \cup {NoResp}
    /\ ret' = ret
    /\ pc' = "read"
    /\ UNCHANGED <<auth, caller, target, resourceVersion, body,
                   isStatusResponse, status, out, readCalls, closeCalls,
                   statusDecodes, classified, targetDecodes, labelVars, saltVars>>

\* lines 140-146: SetBasicAuth, httpClient.Do, return nil, err
DoRequestSend ==
    /\ pc = "doRequest"
    /\ request' = [request EXCEPT !.basicAuth = auth]
    /\ doCalls' = doCalls + 1
    /\ \/ /\ resp' = NoResp
          /\ ret' = [body |-> NilBody, err |-> SimpleErr("transport")]
          /\ pc' = "returned"
       \/ /\ resp' \in Responses
          /\ ret' = ret
          /\ pc' = "read"
    /\ UNCHANGED <<auth, caller, target, resourceVersion, body, isStatusResponse, status, out,
                   readCalls, closeCalls, statusDecodes, classified,
                   targetDecodes, labelVars, saltVars>>

\* Close called at the end of the function instead of deferred
DoRequestReadAll_NoClose ==
    /\ pc = "read"
    /\ readCalls' = readCalls + 1
    /\ IF resp.readOk
       THEN /\ body' = resp.body
            /\ pc' = "decode"
            /\ UNCHANGED ret
       ELSE /\ body' = resp.partial
            /\ ret' = [body |-> resp.partial, err |-> SimpleErr("read")]
            /\ pc' = "returned"
    /\ UNCHANGED <<auth, caller, request, target, resourceVersion, resp,
                   isStatusResponse, status, out, doCalls, closeCalls,
                   statusDecodes, classified, targetDecodes, labelVars, saltVars>>

\* lines 147-151: defer Close, ReadAll, return body, err
DoRequestReadAll ==
    /\ pc = "read"
    /\ readCalls' = readCalls + 1
    /\ IF resp.readOk
       THEN /\ body' = resp.body
            /\ pc' = "decode"
            /\ UNCHANGED <<ret, closeCalls>>
       ELSE /\ body' = resp.partial
            /\ ret' = [body |-> resp.partial, err |-> SimpleErr("read")]
            /\ closeCalls' = closeCalls + 1
            /\ pc' = "returned"
    /\ UNCHANGED <<auth, caller, request, target, resourceVersion, resp, isStatusResponse,
                   status, out, doCalls, statusDecodes, classified,
                   targetDecodes, labelVars, saltVars>>

\* lines 153-158
DoRequestDecodeStatus ==
    /\ pc = "decode"
    /\ statusDecodes' = statusDecodes + 1
    /\ status' = DecodeStatus(body).status
    /\ isStatusResponse' = IsStatusResponse(body)
    /\ pc' = "classify"
    /\ UNCHANGED <<auth, caller, request, target, resourceVersion, resp, body, ret, out,
                   doCalls, readCalls, closeCalls, classified, targetDecodes,
                   labelVars, saltVars>>

\* lines 160-178: the switch, the status check, the return and the deferred Close
DoRequestClassify ==
    /\ pc = "classify"
    /\ classified' = classified + 1
    /\ ret' = Classify(resp.code, isStatusResponse, status, body)
    /\ closeCalls' = closeCalls + 1
    /\ pc' = "returned"
    /\ UNCHANGED <<auth, caller, request, target, resourceVersion, resp, body,
                   isStatusResponse, status, out, doCalls, readCalls,
                   statusDecodes, targetDecodes, labelVars, saltVars>>

----------------------------------------------------------------------------
(* RESTClient.rawRequest *)

\* lines 186-190: http.NewRequest, then doRequest
RawRequest ==
    /\ pc \in {"idle", "done"}
    /\ ResetCall
    /\ caller' = "rawRequest"
    /\ resourceVersion' = 0
    /\ \E t \in BOOLEAN, newRequestOk \in BOOLEAN :
          /\ target' = t
          /\ IF newRequestOk
             THEN /\ request' = [built |-> TRUE, basicAuth |-> FALSE]
                  /\ out' = NoOut
                  /\ pc' = "doRequest"
             ELSE /\ request' = NoRequest
                  /\ out' = [NoOut EXCEPT !.err = SimpleErr("newRequest")]
                  /\ pc' = "done"
    /\ UNCHANGED <<auth, labelVars, saltVars>>

\* the target never decoded into
RawRequestResult_NoDecode(r, t) ==
    [body |-> r.body, err |-> r.err, result |-> NoTarget]

\* the decode error dropped, as the FIXME of line 199 considers
RawRequestResult_Swallow(r, t) ==
    IF r.err # NoErr
    THEN [body |-> r.body, err |-> r.err, result |-> NoTarget]
    ELSE IF t
    THEN [body |-> r.body, err |-> NoErr, result |-> DecodeTarget(r.body).result]
    ELSE [body |-> r.body, err |-> NoErr, result |-> NoTarget]

RawRequestResult(r, t) ==
    IF r.err # NoErr
    THEN [body |-> r.body, err |-> r.err, result |-> NoTarget]
    ELSE IF t
    THEN [body |-> r.body,
          err |-> IF DecodeTarget(r.body).err THEN SimpleErr("decode") ELSE NoErr,
          result |-> DecodeTarget(r.body).result]
    ELSE [body |-> r.body, err |-> NoErr, result |-> NoTarget]

\* lines 191-201
RawRequestReturn ==
    /\ pc = "returned"
    /\ caller = "rawRequest"
    /\ out' = RawRequestResult(ret, target)
    /\ targetDecodes' = IF ret.err = NoErr /\ target THEN targetDecodes + 1
                        ELSE targetDecodes
    /\ pc' = "done"
    /\ UNCHANGED <<auth, caller, request, target, resourceVersion, resp, body,
                   isStatusResponse, status, ret, doCalls, readCalls,
                   closeCalls, statusDecodes, classified, labelVars, saltVars>>

----------------------------------------------------------------------------
(* Client.UpdatePod, UpdateReplicationController, UpdateService *)

\* the ResourceVersion check left out
MissingResourceVersion_Never(rv) == FALSE

MissingResourceVersion(rv) == rv = 0

Update(name, rv) ==
    /\ pc \in {"idle", "done"}
    /\ ResetCall
    /\ caller' = name
    /\ resourceVersion' = rv
    /\ target' = TRUE
    /\ IF MissingResourceVersion(rv)
       THEN /\ request' = NoRequest
            /\ out' = [NoOut EXCEPT !.err = SimpleErr("validation")]
            /\ pc' = "done"
       ELSE /\ request' = [built |-> TRUE, basicAuth |-> FALSE]
            /\ out' = NoOut
            /\ pc' = "doRequest"
    /\ UNCHANGED <<auth, labelVars, saltVars>>

UpdatePod == \E rv \in 0..MaxVersion : Update("UpdatePod", rv)

UpdateReplicationController ==
    \E rv \in 0..MaxVersion : Update("UpdateReplicationController", rv)

UpdateService == \E rv \in 0..MaxVersion : Update("UpdateService", rv)

Updates == {"UpdatePod", "UpdateReplicationController", "UpdateService"}

\* Request.Do().Into(&result): the error of doRequest, else the decode
IntoResult(r) ==
    IF r.err # NoErr
    THEN [body |-> r.body, err |-> r.err, result |-> NoTarget]
    ELSE [body |-> r.body,
          err |-> IF DecodeTarget(r.body).err THEN SimpleErr("decode") ELSE NoErr,
          result |-> DecodeTarget(r.body).result]

ResultInto ==
    /\ pc = "returned"
    /\ caller \in Updates
    /\ out' = IntoResult(ret)
    /\ targetDecodes' = IF ret.err = NoErr THEN targetDecodes + 1
                        ELSE targetDecodes
    /\ pc' = "done"
    /\ UNCHANGED <<auth, caller, request, target, resourceVersion, resp, body,
                   isStatusResponse, status, ret, doCalls, readCalls,
                   closeCalls, statusDecodes, classified, labelVars, saltVars>>

----------------------------------------------------------------------------
(* labels.Set.String *)

Comma == 44
Equals == 61

\* bytes of ',' 'a' 'b' for keys, of '=' 'a' for values
KeyAlphabet == {Comma, 97, 98}

ValueAlphabet == {Equals, 97}

Strs(alphabet, n) == UNION {[1..k -> alphabet] : k \in 0..n}

RECURSIVE KeySets(_)
KeySets(n) ==
    IF n = 0 THEN {{}}
    ELSE KeySets(n - 1) \cup
         {S \cup {k} : S \in KeySets(n - 1), k \in Strs(KeyAlphabet, MaxKeyLen)}

\* every map[string]string within the bounds
LabelSets ==
    UNION {[D -> Strs(ValueAlphabet, MaxValLen)] : D \in KeySets(MaxPairs)}

\* the orders in which "for key, value := range ls" may visit the map
Orders(m) ==
    {o \in [1..Cardinality(DOMAIN m) -> DOMAIN m] :
        \A i, j \in 1..Cardinality(DOMAIN m) : o[i] = o[j] => i = j}

\* Go's < on strings: bytewise lexicographic
RECURSIVE StrLess(_, _)
StrLess(a, b) ==
    IF a = <<>> THEN b # <<>>
    ELSE IF b = <<>> THEN FALSE
    ELSE IF a[1] # b[1] THEN a[1] < b[1]
    ELSE StrLess(Tail(a), Tail(b))

RECURSIVE SortInsert(_, _)
SortInsert(x, sorted) ==
    IF sorted = <<>> THEN <<x>>
    ELSE IF StrLess(x, Head(sorted)) THEN <<x>> \o sorted
    ELSE <<Head(sorted)>> \o SortInsert(x, Tail(sorted))

\* sort.StringSlice(selector).Sort()
RECURSIVE SortStrings(_)
SortStrings(seq) ==
    IF seq = <<>> THEN <<>>
    ELSE SortInsert(Head(seq), SortStrings(Tail(seq)))

\* strings.Join
RECURSIVE Join(_, _)
Join(seq, sep) ==
    IF seq = <<>> THEN <<>>
    ELSE IF Len(seq) = 1 THEN seq[1]
    ELSE seq[1] \o sep \o Join(Tail(seq), sep)

\* lines 36-39: the slice built by the range loop visiting the keys in order o
Selector(m, o) == [i \in 1..Len(o) |-> o[i] \o <<Equals>> \o m[o[i]]]

\* the sort left out
String_NoSort(m, o) == Join(Selector(m, o), <<Comma>>)

\* lines 35-43
String(m, o) == Join(SortStrings(Selector(m, o)), <<Comma>>)

SetString ==
    /\ lpc = "idle"
    /\ \E o \in Orders(ls) :
          /\ selector' = Selector(ls, o)
          /\ str' = String(ls, o)
    /\ lpc' = "done"
    /\ UNCHANGED <<ls, clientVars, saltVars>>

----------------------------------------------------------------------------
(* VagrantCloud.saltMinionsByRole, VagrantCloud.List *)

\* "kubernetes-pool"
KubernetesPool ==
    <<107, 117, 98, 101, 114, 110, 101, 116, 101, 115, 45, 112, 111, 111, 108>>

\* "kubernetes-master"
KubernetesMaster ==
    <<107, 117, 98, 101, 114, 110, 101, 116, 101, 115, 45, 109, 97, 115, 116,
      101, 114>>

\* "salt-master"
SaltMaster == <<115, 97, 108, 116, 45, 109, 97, 115, 116, 101, 114>>

RoleNames == {KubernetesMaster, KubernetesPool, SaltMaster}

RoleLists(max) == UNION {[1..k -> RoleNames] : k \in 0..max}

\* the []SaltMinion of n minions; the IP of a minion is its position
MinionLists(n) ==
    {[i \in 1..n |-> [IP |-> i, Roles |-> r[i]]] : r \in [1..n -> RoleLists(MaxRoles)]}

\* sort.Search(n, f) with f(h) = a[h] >= x, indices from 0
RECURSIVE Search(_, _, _, _)
Search(a, x, i, j) ==
    IF i < j
    THEN LET h == (i + j) \div 2
         IN IF StrLess(a[h + 1], x)
            THEN Search(a, x, h + 1, j)
            ELSE Search(a, x, i, h)
    ELSE i

\* sort.SearchStrings
SearchStrings(a, x) == Search(a, x, 0, Len(a))

\* lines 105-106: the test of the loop body on the sorted Roles
HasRole(roles, r) == SearchStrings(SortStrings(roles), r) < Len(roles)

\* line 105: sort.Strings sorts the Roles of the caller's minions in place
SortRoles(ms) == [i \in 1..Len(ms) |-> [ms[i] EXCEPT !.Roles = SortStrings(@)]]

\* lines 102-111
FilterByRole(ms, r) == SelectSeq(SortRoles(ms), LAMBDA m : HasRole(m.Roles, r))

IPs(ms) == [i \in 1..Len(ms) |-> ms[i].IP]

NoInstances == [instances |-> <<>>, err |-> FALSE]

SaltMinionsByRole ==
    /\ spc = "idle"
    /\ filteredMinions' = FilterByRole(minions, role)
    /\ minions' = SortRoles(minions)
    /\ spc' = "filtered"
    /\ UNCHANGED <<role, instances, clientVars, labelVars>>

\* lines 176-194: saltLogin, saltMinions, saltMinionsByRole, the IPs
List ==
    /\ spc = "idle"
    /\ \E loginOk \in BOOLEAN, minionsOk \in BOOLEAN :
          IF loginOk /\ minionsOk
          THEN /\ role' = KubernetesPool
               /\ filteredMinions' = FilterByRole(minions, KubernetesPool)
               /\ minions' = SortRoles(minions)
               /\ instances' = [instances |-> IPs(filteredMinions'), err |-> FALSE]
               /\ spc' = "listed"
          ELSE /\ instances' = [instances |-> <<>>, err |-> TRUE]
               /\ spc' = "failed"
               /\ UNCHANGED <<minions, role, filteredMinions>>
    /\ UNCHANGED <<clientVars, labelVars>>

----------------------------------------------------------------------------
(* Specification of the client *)

ClientInit ==
    /\ auth \in BOOLEAN
    /\ pc = "idle"
    /\ caller = "none"
    /\ request = NoRequest
    /\ target = FALSE
    /\ resourceVersion = 0
    /\ resp = NoResp
    /\ body = NilBody
    /\ isStatusResponse = FALSE
    /\ status = NoStatus
    /\ ret = NoRet
    /\ out = NoOut
    /\ doCalls = 0
    /\ readCalls = 0
    /\ closeCalls = 0
    /\ statusDecodes = 0
    /\ classified = 0
    /\ targetDecodes = 0

LabelsIdle ==
    /\ ls = <<>>
    /\ selector = <<>>
    /\ str = <<>>
    /\ lpc = "idle"

SaltIdle ==
    /\ minions = <<>>
    /\ role = <<>>
    /\ filteredMinions = <<>>
    /\ instances = NoInstances
    /\ spc = "idle"

Init == ClientInit /\ LabelsIdle /\ SaltIdle

Next ==
    \/ RawRequest
    \/ UpdatePod
    \/ UpdateReplicationController
    \/ UpdateService
    \/ DoRequestSend
    \/ DoRequestReadAll
    \/ DoRequestDecodeStatus
    \/ DoRequestClassify
    \/ RawRequestReturn
    \/ ResultInto

Spec == Init /\ [][Next]_vars

(* Specification of Set.String over every label set within the bounds *)

InitLabels ==
    /\ ClientInit
    /\ ~auth
    /\ ls \in LabelSets
    /\ selector = <<>>
    /\ str = <<>>
    /\ lpc = "idle"
    /\ SaltIdle

NextLabels == SetString

SpecLabels == InitLabels /\ [][NextLabels]_vars

(* Specification of the Vagrant cloud provider over every minion list within
   the bounds *)

InitSalt ==
    /\ ClientInit
    /\ ~auth
    /\ LabelsIdle
    /\ \E n \in 0..MaxMinions : minions \in MinionLists(n)
    /\ role \in RoleNames
    /\ filteredMinions = <<>>
    /\ instances = NoInstances
    /\ spc = "idle"

NextSalt == SaltMinionsByRole \/ List

SpecSalt == InitSalt /\ [][NextSalt]_vars

----------------------------------------------------------------------------
(* Properties *)

\* doRequest has returned (and its results are still in ret)
Returned == pc \in {"returned", "done"} /\ doCalls = 1

\* a response was received and its body read in full
GotBody == Returned /\ resp.received /\ resp.readOk

\* the body decodes as an api.Status with a non-empty Status field
Decodable(b) == ~DecodeStatus(b).err /\ DecodeStatus(b).status.Status # ""

KindOf(b) == DecodeStatus(b).status.Status

InRange(code) == code >= 200 /\ code <= 206

\* C1 (as stated): every response whose body decodes as a status of kind
\* Working or Failure ends in a StatusErr carrying that status, for every
\* status code.
C1_AnyCode ==
    GotBody /\ Decodable(resp.body)
            /\ KindOf(resp.body) \in {StatusWorking, StatusFailure}
        => ret.err = StatusErr(DecodeStatus(resp.body).status)

\* C1 (amended): a response whose body decodes as a status of kind Working or
\* Failure ends in a StatusErr carrying that status when the status code is
\* in [200,206] or is 409.
C1_InRangeOrConflict ==
    GotBody /\ Decodable(resp.body)
            /\ KindOf(resp.body) \in {StatusWorking, StatusFailure}
            /\ (InRange(resp.code) \/ resp.code = 409)
        => /\ ret.err = StatusErr(DecodeStatus(resp.body).status)
           /\ ret.body = NilBody

C1_Witness ==
    /\ pc = "returned"
    /\ resp.readOk
    /\ resp.code = 200
    /\ KindOf(resp.body) = StatusWorking
    /\ ret.err.type = "StatusErr"

\* C2: a 409 response ends in a StatusErr carrying exactly the decoded status
\* when the body decodes as a status of any non-empty kind, and in the
\* generic transport-range error, never a StatusErr, when it does not.
C2_Conflict ==
    GotBody /\ resp.code = 409
        => IF Decodable(resp.body)
           THEN ret.err = StatusErr(DecodeStatus(resp.body).status)
           ELSE /\ ret.err = RangeErr(409, resp.body)
                /\ ret.err.type # "StatusErr"

C2_Witness ==
    /\ pc = "returned"
    /\ resp.readOk
    /\ resp.code = 409
    /\ KindOf(resp.body) = StatusSuccess
    /\ ret.err.type = "StatusErr"
    /\ ret.err.status.Details = resp.body.val

\* the responses C3 is about
C3_Case ==
    /\ pc = "done"
    /\ caller = "rawRequest"
    /\ GotBody
    /\ InRange(resp.code)
    /\ (~Decodable(resp.body) \/ KindOf(resp.body) = StatusSuccess)

\* C3 (as stated): for a status code in [200,206] and a body with no
\* decodable status or a status of kind Success, rawRequest ends with a nil
\* error and the body unchanged, and a supplied target is populated by
\* decoding that body.
C3_AlwaysSuccess ==
    C3_Case
        => /\ out.err = NoErr
           /\ out.body = resp.body
           /\ target => out.result.set /\ out.result = DecodeTarget(resp.body).result

\* C3 (amended): in that case doRequest ends with a nil error and rawRequest
\* returns the body unchanged; when no target was supplied, or the body
\* decodes into the target, rawRequest's error is nil and the supplied target
\* is populated by decoding that body; when the body does not decode into the
\* supplied target, rawRequest returns the decode error.
C3_SuccessUnlessDecodeFails ==
    C3_Case
        => /\ ret.err = NoErr
           /\ out.body = resp.body
           /\ IF target /\ DecodeTarget(resp.body).err
              THEN out.err = SimpleErr("decode") /\ ~out.result.set
              ELSE /\ out.err = NoErr
                   /\ target => /\ out.result.set
                                /\ out.result = DecodeTarget(resp.body).result
                   /\ ~target => ~out.result.set

C3_Witness ==
    /\ C3_Case
    /\ target
    /\ KindOf(resp.body) = StatusSuccess
    /\ out.err = NoErr
    /\ out.result.set
    /\ out.result.val = resp.body.val

\* C4: when httpClient.Do fails, doRequest returns that error with no body;
\* the body is not read or closed, no status decode and no classification
\* happens, and rawRequest hands the error on without decoding into the
\* target.
C4_TransportError ==
    Returned /\ ~resp.received
        => /\ ret = [body |-> NilBody, err |-> SimpleErr("transport")]
           /\ readCalls = 0
           /\ closeCalls = 0
           /\ statusDecodes = 0
           /\ classified = 0
           /\ targetDecodes = 0
           /\ pc = "done" =>
                 out = [body |-> NilBody, err |-> SimpleErr("transport"),
                        result |-> NoTarget]

C4_Witness ==
    /\ pc = "done"
    /\ caller = "rawRequest"
    /\ target
    /\ doCalls = 1
    /\ ~resp.received
    /\ out.err.type = "transport"

\* C5: an Update* call with ResourceVersion 0 ends at once with a validation
\* error and never invokes httpClient.Do; with a non-zero ResourceVersion it
\* does not end without having sent the request.
C5_UpdateNeedsVersion ==
    caller \in Updates
        => /\ resourceVersion = 0
                => /\ pc = "done"
                   /\ out.err = SimpleErr("validation")
                   /\ doCalls = 0
                   /\ ~request.built
           /\ resourceVersion # 0
                => /\ request.built
                   /\ out.err.type # "validation"
                   /\ pc = "done" => doCalls = 1

C5_Witness ==
    /\ caller = "UpdateService"
    /\ resourceVersion = 0
    /\ pc = "done"
    /\ out.err.type = "validation"
    /\ doCalls = 0

\* C6: when the body decoded as a status of a non-empty kind other than
\* Success, doRequest does not return a nil error, whatever the status code.
C6_NonSuccessNeverNil ==
    GotBody /\ Decodable(resp.body) /\ KindOf(resp.body) # StatusSuccess
        => /\ ret.err # NoErr
           /\ pc = "done" => out.err # NoErr

C6_Witness ==
    /\ pc = "returned"
    /\ resp.readOk
    /\ resp.code = 204
    /\ KindOf(resp.body) = StatusFailure
    /\ ret.err # NoErr

\* C8: when doRequest succeeded, a target was supplied and the body does not
\* decode into it, rawRequest returns the decode error (neither a StatusErr
\* nor the transport-range error) together with the body; a decode error is
\* returned in no other case, and no decode is attempted after an error.
C8_DecodeFailureReported ==
    pc = "done" /\ caller = "rawRequest" /\ doCalls = 1
        => /\ ret.err = NoErr /\ target /\ DecodeTarget(ret.body).err
                => /\ out.err = SimpleErr("decode")
                   /\ out.err.type \notin {"nil", "StatusErr", "range"}
                   /\ out.body = resp.body
           /\ out.err.type = "decode"
                => ret.err = NoErr /\ target /\ DecodeTarget(ret.body).err
           /\ ret.err # NoErr => targetDecodes = 0 /\ out.err = ret.err

C8_Witness ==
    /\ pc = "done"
    /\ caller = "rawRequest"
    /\ target
    /\ resp.code = 200
    /\ resp.body.form = "object"
    /\ ~resp.body.fits
    /\ out.err.type = "decode"
    /\ out.body = resp.body

\* C9: for every status code outside [200,206], except 409 with a decodable
\* status, doRequest returns the transport-range error carrying the body and
\* the status code, also when the body decodes as a status of kind Failure
\* or Working.
C9_RangeBeforeStatus ==
    GotBody /\ ~InRange(resp.code)
            /\ ~(resp.code = 409 /\ Decodable(resp.body))
        => ret = [body |-> NilBody, err |-> RangeErr(resp.code, resp.body)]

C9_Witness ==
    /\ pc = "returned"
    /\ resp.readOk
    /\ resp.code = 500
    /\ KindOf(resp.body) = StatusFailure
    /\ ret.err.type = "range"
    /\ ret.err.body = resp.body

\* C10: once doRequest has returned, the response body has been closed
\* exactly once if a response was received and not at all otherwise; it is
\* not closed while doRequest is still running.
C10_ClosedOnce ==
    /\ Returned => closeCalls = (IF resp.received THEN 1 ELSE 0)
    /\ pc \in {"doRequest", "read", "decode", "classify"} => closeCalls = 0
    /\ closeCalls <= 1

C10_Witness ==
    /\ pc = "returned"
    /\ resp.received
    /\ ~resp.readOk
    /\ ret.err.type = "read"
    /\ closeCalls = 1

\* the strings Set.String is specified for
Plain(x) == x # <<>> /\ \A i \in 1..Len(x) : x[i] \notin {Comma, Equals}

PlainSet(m) == \A k \in DOMAIN m : Plain(k) /\ Plain(m[k])

\* strings.Split on a one-byte separator
RECURSIVE Split(_, _)
Split(x, sep) ==
    IF \A i \in 1..Len(x) : x[i] # sep THEN <<x>>
    ELSE LET i == CHOOSE i \in 1..Len(x) :
                     x[i] = sep /\ \A j \in 1..(i - 1) : x[j] # sep
         IN <<SubSeq(x, 1, i - 1)>> \o Split(SubSeq(x, i + 1, Len(x)), sep)

Pieces(x) == IF x = <<>> THEN <<>> ELSE Split(x, Comma)

\* C7: for a label set with non-empty keys and values free of ',' and '=',
\* splitting the output of String on ',' and each piece on '=' yields exactly
\* the pairs of the set, and the output is the same for every iteration
\* order of the map.
C7_RoundTrip ==
    lpc = "done" /\ PlainSet(ls)
        => /\ Len(Pieces(str)) = Cardinality(DOMAIN ls)
           /\ \A i \in 1..Len(Pieces(str)) : Len(Split(Pieces(str)[i], Equals)) = 2
           /\ {Split(Pieces(str)[i], Equals) : i \in 1..Len(Pieces(str))}
                 = {<<k, ls[k]>> : k \in DOMAIN ls}
           /\ \A o \in Orders(ls) : String(ls, o) = str

C7_Witness ==
    /\ lpc = "done"
    /\ PlainSet(ls)
    /\ Cardinality(DOMAIN ls) = 2
    /\ selector # SortStrings(selector)
    /\ str = Join(SortStrings(selector), <<Comma>>)

\* the minions of ms, in order, one of whose Roles equals r
Holding(ms, r) ==
    SelectSeq(ms, LAMBDA m : \E i \in 1..Len(m.Roles) : m.Roles[i] = r)

\* C11: saltMinionsByRole returns exactly the minions, in input order, one of
\* whose Roles equals role, and List returns the IPs of exactly the minions
\* holding the role "kubernetes-pool".
C11_ExactlyMatching ==
    /\ spc = "filtered" => IPs(filteredMinions) = IPs(Holding(minions, role))
    /\ spc = "listed" =>
          instances.instances = IPs(Holding(minions, KubernetesPool))

====
